---- MODULE Spec2Model ----
(***************************************************************************)
(* Model of swanlake's playback engine (AudioStream, [old]audio_stream.py) *)
(* driven by a sounddevice.OutputStream: the transport calls, the          *)
(* block-fill callback (_next_block_callback) and the finish hook          *)
(* (_stop_playback_callback).                                              *)
(*                                                                         *)
(* Frames are indexed from 0 as in the source; the content of source frame *)
(* i is the non-zero number i + 1, so that a delivered frame names the     *)
(* source frame it came from and 0 is silence.                             *)
(***************************************************************************)
EXTENDS Integers, Sequences, FiniteSets, TLC

\* ---------------------------------------------------------------- bounds
\* largest frame count of the audio asset
MaxFrames == 3
\* largest block size (the scaled-down DEFAULT_BLOCK_SIZE)
MaxBlock == 3
\* largest frame size in bytes (samplewidth * channels) of the Frame Store
MaxFrameSize == 2
\* largest frame count passed to the Frame Store's read, read_left and seek
MaxRead == 2

\* ------------------------------------------------------------- constants
MODE_STOPPED == 0
MODE_PAUSED == 1
MODE_PLAYING == 2
FILEOBJ_SEEK_ABSOLUTE == 0
FILEOBJ_SEEK_RELATIVE == 1

VARIABLES
    framecount,   \* len(self._audio) == self.audio.framecount == len(self._audio.data)
    blocksize,    \* AudioStream.DEFAULT_BLOCK_SIZE == len(outdata)
    self,         \* the AudioStream object: curframe, loop, direction, mode, stream
    cb,           \* the block-fill callback: whether one is in flight, its locals
    outdata,      \* the output buffer as the last callback left it
    signal,       \* how the last callback ended: none, continue, stop, error
    eos,          \* end-of-stream signals raised since the stream was started
    last,         \* the call or scheduler step that ran last: its name, its
                  \* argument (for stop and pause whether the stream was active,
                  \* for play the mode it was called in) and whether it raised
    run,          \* when on, the source frames the callbacks have delivered
    store         \* the BaseAudioData object: framesize, _position, the cursor
                  \* of its source, and the chunk its last read took

vars == <<framecount, blocksize, self, cb, outdata, signal, eos, last, run, store>>

\* ------------------------------------------------------------ audio data
\* self._audio.data[i]: the content of source frame i
data(i) == i + 1

Min(a, b) == IF a < b THEN a ELSE b
Max(a, b) == IF a > b THEN a ELSE b

\* frame_array[start : end : step] for step in {1, -1}, as CPython adjusts
\* slice indices (PySlice_AdjustIndices); has_end = FALSE is end = None.
\* The result is the sequence of the frame indices selected.
PySlice(len, start, has_end, end, step) ==
    IF step = 1
    THEN LET s == IF start < 0 THEN Max(start + len, 0) ELSE Min(start, len)
             e == IF ~has_end THEN len
                  ELSE IF end < 0 THEN Max(end + len, 0) ELSE Min(end, len)
             n == Max(e - s, 0)
         IN  [k \in 1..n |-> s + (k - 1)]
    ELSE LET s == IF start < 0 THEN Max(start + len, -1) ELSE Min(start, len - 1)
             e == IF ~has_end THEN -1
                  ELSE IF end < 0 THEN Max(end + len, -1) ELSE Min(end, len - 1)
             n == Max(s - e, 0)
         IN  [k \in 1..n |-> s - (k - 1)]

\* ------------------------------------------------- sounddevice.OutputStream
\* stream states: "stopped"  not started, or stop()/abort() has returned
\*                "active"   started, the callback is being invoked
\*                "draining" the callback ended the stream; still active until
\*                           the last buffer is played, then the finish hook runs
\*                "finished" inactive after the callback ended it, not stopped
stream_active(o) == o.stream \in {"active", "draining"}
stream_stopped(o) == o.stream = "stopped"

\* ------------------------------------------------------------ AudioStream
Ok(o) == [obj |-> o, err |-> FALSE]
Raise(o) == [obj |-> o, err |-> TRUE]

reverse(o) == IF o.direction = -1 THEN TRUE ELSE FALSE

\* the direction setter without its validation
set_direction_unchecked(o, new_val) == Ok([o EXCEPT !.direction = new_val])

set_direction(o, new_val) ==
    IF new_val # 1 /\ new_val # -1
    THEN Raise(o)
    ELSE Ok([o EXCEPT !.direction = new_val])

set_reverse(o, new_val) == set_direction(o, IF new_val THEN -1 ELSE 1)

set_loop(o, new_val) == [o EXCEPT !.loop = new_val]

\* jump_to_frame clamping an out-of-range frame instead of rejecting it
jump_to_frame_clamps(o, frame) ==
    Ok([o EXCEPT !.curframe = Max(0, Min(frame, framecount))])

\* jump_to_frame taking the frame number as 1-based
jump_to_frame_one_based(o, frame) ==
    IF frame < 0 \/ frame > framecount
    THEN Raise(o)
    ELSE Ok([o EXCEPT !.curframe = Max(frame - 1, 0)])

jump_to_frame(o, frame) ==
    IF frame < 0 \/ frame > framecount
    THEN Raise(o)
    ELSE Ok([o EXCEPT !.curframe = frame])

jump_to_start(o) == jump_to_frame(o, 0)

jump_to_end(o) == jump_to_frame(o, framecount - 1)

set_default_playback_state(o) ==
    LET j == jump_to_start(o)
    IN  IF j.err THEN j.obj ELSE [j.obj EXCEPT !.mode = MODE_STOPPED]

\* a finish hook that resets the playback state whatever the mode
stop_playback_callback_always_resets(o) == set_default_playback_state(o)

stop_playback_callback(o) ==
    IF o.mode # MODE_PAUSED THEN set_default_playback_state(o) ELSE o

\* self._stream.stop() / .abort(): returns once the stream is inactive; the
\* finish hook runs when an active stream becomes inactive
stream_stop(o) ==
    IF stream_active(o)
    THEN stop_playback_callback([o EXCEPT !.stream = "stopped"])
    ELSE [o EXCEPT !.stream = "stopped"]

stream_abort(o) == stream_stop(o)

stream_start(o) == [o EXCEPT !.stream = "active"]

\* stop() that starts the stream when it finds it inactive (a play/stop toggle)
stop_toggles(o) ==
    IF stream_active(o)
    THEN stream_stop([o EXCEPT !.mode = MODE_STOPPED])
    ELSE stream_start([o EXCEPT !.mode = MODE_PLAYING])

stop(o) ==
    IF stream_active(o)
    THEN stream_stop([o EXCEPT !.mode = MODE_STOPPED])
    ELSE o

pause(o) ==
    IF stream_active(o)
    THEN stream_stop([o EXCEPT !.mode = MODE_PAUSED])
    ELSE o

\* play() without the jump to the end for reverse playback
play_without_jump(o) ==
    LET a == IF o.mode = MODE_STOPPED THEN stream_abort(o) ELSE o
        b == [a EXCEPT !.mode = MODE_PLAYING]
    IN  IF stream_stopped(b) THEN Ok(stream_start(b)) ELSE Ok(b)

play(o) ==
    LET a == IF o.mode = MODE_STOPPED THEN stream_abort(o) ELSE o
        b == [a EXCEPT !.mode = MODE_PLAYING]
    IN  IF stream_stopped(b)
        THEN LET j == IF reverse(b) THEN jump_to_end(b) ELSE Ok(b)
             IN  IF j.err THEN j ELSE Ok(stream_start(j.obj))
        ELSE Ok(b)

\* get_next_block(frame_array, direction, start_frame, slice_size):
\* the frames of the block (by content) and the index of the next position
is_within_bounds(indx) == IF 0 <= indx /\ indx < framecount THEN TRUE ELSE FALSE

\* get_next_block computing the end of the block as if playing forward
get_next_block_forward_end(direction, start_frame, slice_size) ==
    LET start == start_frame
        raw_end == start + slice_size
        has_end == is_within_bounds(raw_end)
        end_frame_idx == IF raw_end # 0 THEN raw_end
                         ELSE IF direction = 1 THEN framecount ELSE 0
        idx == PySlice(framecount, start, has_end, raw_end, direction)
    IN  [block |-> [k \in 1..Len(idx) |-> data(idx[k])],
         end_block_idx |-> end_frame_idx]

get_next_block(direction, start_frame, slice_size) ==
    LET start == start_frame
        raw_end == start + (slice_size * direction)
        has_end == is_within_bounds(raw_end)
        end_frame_idx == IF raw_end # 0 THEN raw_end
                         ELSE IF direction = 1 THEN framecount ELSE 0
        idx == PySlice(framecount, start, has_end, raw_end, direction)
    IN  [block |-> [k \in 1..Len(idx) |-> data(idx[k])],
         end_block_idx |-> end_frame_idx]

Zeros(n) == [k \in 1..n |-> 0]

\* _next_block_callback that does not zero-fill the rest of a short block
fill_block_without_zero_fill(o, block_data, end_block_idx, out) ==
    IF Len(block_data) < Len(out)
    THEN LET stale == block_data \o SubSeq(out, Len(block_data) + 1, Len(out))
         IN  IF o.loop
             THEN LET j == IF reverse(o) THEN jump_to_end(o) ELSE jump_to_start(o)
                  IN  IF j.err
                      THEN [obj |-> [o EXCEPT !.stream = "draining"],
                            outdata |-> stale, signal |-> "error"]
                      ELSE [obj |-> j.obj, outdata |-> stale, signal |-> "continue"]
             ELSE [obj |-> [o EXCEPT !.stream = "draining"],
                   outdata |-> stale, signal |-> "stop"]
    ELSE IF Len(block_data) # Len(out)
         THEN [obj |-> [o EXCEPT !.stream = "draining"],
               outdata |-> out, signal |-> "error"]
         ELSE [obj |-> [o EXCEPT !.curframe = end_block_idx],
               outdata |-> block_data, signal |-> "continue"]

\* _next_block_callback from the under-run test on, given the block computed
\* on entry: the object, the buffer and how the callback ended
fill_block(o, block_data, end_block_idx, out) ==
    IF Len(block_data) < Len(out)
    THEN LET padded == block_data \o Zeros(Len(out) - Len(block_data))
         IN  IF o.loop
             THEN LET j == IF reverse(o) THEN jump_to_end(o) ELSE jump_to_start(o)
                  IN  IF j.err
                      THEN [obj |-> [o EXCEPT !.stream = "draining"],
                            outdata |-> padded, signal |-> "error"]
                      ELSE [obj |-> j.obj, outdata |-> padded, signal |-> "continue"]
             ELSE [obj |-> [o EXCEPT !.stream = "draining"],
                   outdata |-> padded, signal |-> "stop"]
    ELSE IF Len(block_data) # Len(out)
         THEN [obj |-> [o EXCEPT !.stream = "draining"],
               outdata |-> out, signal |-> "error"]
         ELSE [obj |-> [o EXCEPT !.curframe = end_block_idx],
               outdata |-> block_data, signal |-> "continue"]

\* ---------------------------------------------------------- BaseAudioData
\* The source holds framecount * framesize bytes; a byte is named by its
\* offset, and the byte at offset b belongs to frame b \div framesize.
ByteLength(st) == framecount * st.framesize

\* self.source.seek(offset, whence).  A target before the start of the file
\* raises; an in-memory source instead clamps a relative seek to 0 (clamps).
\* A target past the end is accepted.
source_seek(st, offset, whence, clamps) ==
    LET target == IF whence = FILEOBJ_SEEK_ABSOLUTE THEN offset
                  ELSE st.cursor + offset
    IN  IF target < 0
        THEN IF whence = FILEOBJ_SEEK_RELATIVE /\ clamps
             THEN Ok([st EXCEPT !.cursor = 0])
             ELSE Raise(st)
        ELSE Ok([st EXCEPT !.cursor = target])

\* self.source.read(size): the next size bytes, fewer at the end of the file
source_read(st, size) ==
    LET n == Max(0, Min(size, ByteLength(st) - st.cursor))
    IN  [st EXCEPT !.chunk = [k \in 1..n |-> st.cursor + (k - 1)],
                   !.cursor = st.cursor + n]

\* _move_fileobj_cursor: the bounds test builds a ValueError and drops it
\* (there is no raise), so the seek is always attempted
move_fileobj_cursor(st, frame_offset, mode, clamps) ==
    LET new_pos == frame_offset * st.framesize
    IN  source_seek(st, new_pos, mode, clamps)

\* _move_position: position is assigned only when the seek raised
move_position(st, frame_offset, mode, clamps) ==
    LET r == move_fileobj_cursor(st, frame_offset, mode, clamps)
    IN  IF r.err
        THEN Ok([st EXCEPT !.position = st.cursor \div st.framesize])
        ELSE r

store_seek(st, frame_offset, clamps) ==
    move_fileobj_cursor(st, frame_offset, FILEOBJ_SEEK_RELATIVE, clamps)

store_jump(st, frame_offset) ==
    move_fileobj_cursor(st, frame_offset, FILEOBJ_SEEK_ABSOLUTE, FALSE)

get_chunk_from_infront(st, chunk_size) == source_read(st, chunk_size)

get_chunk_from_behind(st, chunk_size) ==
    LET before == st.position - chunk_size
        size == IF before < 0 THEN chunk_size - before ELSE chunk_size
        starting_frame == IF before < 0 THEN 0 ELSE before
        a == move_fileobj_cursor(st, starting_frame, FILEOBJ_SEEK_ABSOLUTE, FALSE).obj
        b == source_read(a, size)
    IN  move_fileobj_cursor(b, st.position, FILEOBJ_SEEK_ABSOLUTE, FALSE).obj

\* _create_frame_array: len(byte_data // self.framesize) divides a bytes
\* object by an int, which raises TypeError for every chunk
create_frame_array(st) == Raise(st)

store_read(st, frames) == create_frame_array(get_chunk_from_infront(st, frames))

store_read_left(st, frames) == create_frame_array(get_chunk_from_behind(st, frames))

\* ------------------------------------------------------------------- Init
Did(op, arg, err) == [op |-> op, arg |-> arg, err |-> err]

\* no callback in flight.  jump is <<f>> when the callback was entered right
\* after a successful jump_to_frame(f), and empty otherwise
Idle == [pc |-> "idle", block |-> <<>>, end_block_idx |-> 0, start |-> 0,
         direction |-> 1, jump |-> <<>>]

\* AudioStream.__init__(audiodata, loop=..., reverse=...)
NewStream(lp, rv) ==
    set_reverse(set_loop(set_default_playback_state(
        [curframe |-> 0, loop |-> FALSE, direction |-> 1,
         mode |-> MODE_STOPPED, stream |-> "stopped"]), lp), rv).obj

\* BaseAudioData.__init__(source, channels, samplewidth, framerate, framecount)
NewStore(framesize) ==
    [framesize |-> framesize, position |-> 0, cursor |-> 0, chunk |-> <<>>]

RunOff == [on |-> FALSE, frames |-> <<>>]

Init ==
    /\ framecount \in 0..MaxFrames
    /\ blocksize \in 1..MaxBlock
    /\ \E lp \in BOOLEAN, rv \in BOOLEAN : self = NewStream(lp, rv)
    /\ cb = Idle
    /\ outdata = Zeros(blocksize)
    /\ signal = "none"
    /\ eos = 0
    /\ last = Did("init", 0, FALSE)
    /\ run = RunOff
    /\ store = NewStore(1)

\* ---------------------------------------------------------------- actions
\* The control context.  stop() and pause() return only once the stream is
\* inactive, so they complete when no callback is in flight.
Stop ==
    /\ cb.pc = "idle"
    /\ self' = stop(self)
    /\ last' = Did("stop", IF stream_active(self) THEN 1 ELSE 0, FALSE)
    /\ UNCHANGED <<store, run, framecount, blocksize, cb, outdata, signal, eos>>

Pause ==
    /\ cb.pc = "idle"
    /\ self' = pause(self)
    /\ last' = Did("pause", IF stream_active(self) THEN 1 ELSE 0, FALSE)
    /\ UNCHANGED <<store, run, framecount, blocksize, cb, outdata, signal, eos>>

Play ==
    /\ LET r == play(self)
       IN  /\ self' = r.obj
           /\ last' = Did("play", self.mode, r.err)
           /\ eos' = IF self.stream # "active" /\ r.obj.stream = "active" THEN 0 ELSE eos
    /\ UNCHANGED <<store, run, framecount, blocksize, cb, outdata, signal>>

JumpToFrame ==
    /\ \E frame \in -1..(framecount + 1) :
          LET r == jump_to_frame(self, frame)
          IN  /\ self' = r.obj
              /\ last' = Did("jump_to_frame", frame, r.err)
    /\ UNCHANGED <<store, run, framecount, blocksize, cb, outdata, signal, eos>>

JumpToStart ==
    /\ LET r == jump_to_start(self)
       IN  /\ self' = r.obj
           /\ last' = Did("jump_to_start", 0, r.err)
    /\ UNCHANGED <<store, run, framecount, blocksize, cb, outdata, signal, eos>>

JumpToEnd ==
    /\ LET r == jump_to_end(self)
       IN  /\ self' = r.obj
           /\ last' = Did("jump_to_end", 0, r.err)
    /\ UNCHANGED <<store, run, framecount, blocksize, cb, outdata, signal, eos>>

SetDirection ==
    /\ \E new_val \in {-1, 0, 1, 2} :
          LET r == set_direction(self, new_val)
          IN  /\ self' = r.obj
              /\ last' = Did("set_direction", new_val, r.err)
    /\ UNCHANGED <<store, run, framecount, blocksize, cb, outdata, signal, eos>>

SetReverse ==
    /\ \E new_val \in BOOLEAN :
          LET r == set_reverse(self, new_val)
          IN  /\ self' = r.obj
              /\ last' = Did("set_reverse", IF new_val THEN 1 ELSE 0, r.err)
    /\ UNCHANGED <<store, run, framecount, blocksize, cb, outdata, signal, eos>>

SetLoop ==
    /\ \E new_val \in BOOLEAN :
          /\ self' = set_loop(self, new_val)
          /\ last' = Did("set_loop", IF new_val THEN 1 ELSE 0, FALSE)
    /\ UNCHANGED <<store, run, framecount, blocksize, cb, outdata, signal, eos>>

\* The output scheduler.  The callback enters (it reads the direction and
\* curframe and computes the block) and later writes the buffer and curframe.
CallbackBegin ==
    /\ self.stream = "active"
    /\ cb.pc = "idle"
    /\ LET nb == get_next_block(self.direction, self.curframe, blocksize)
       IN  cb' = [pc |-> "running", block |-> nb.block,
                  end_block_idx |-> nb.end_block_idx,
                  start |-> self.curframe, direction |-> self.direction,
                  jump |-> IF last.op = "jump_to_frame" /\ ~last.err
                           THEN <<last.arg>> ELSE <<>>]
    /\ last' = Did("callback_begin", 0, FALSE)
    /\ UNCHANGED <<store, run, framecount, blocksize, self, outdata, signal, eos>>

CallbackEnd ==
    /\ cb.pc = "running"
    /\ LET r == fill_block(self, cb.block, cb.end_block_idx, outdata)
       IN  /\ self' = r.obj
           /\ outdata' = r.outdata
           /\ signal' = r.signal
           /\ eos' = IF r.signal = "stop" THEN eos + 1 ELSE eos
           /\ last' = Did("callback_end", 0, r.signal = "error")
           /\ run' = IF run.on /\ r.signal # "error"
                     THEN [run EXCEPT !.frames = @ \o cb.block]
                     ELSE run
    /\ cb' = Idle
    /\ UNCHANGED <<store, framecount, blocksize>>

\* the finish hook after the callback ended the stream
FinishHook ==
    /\ self.stream = "draining"
    /\ cb.pc = "idle"
    /\ self' = stop_playback_callback([self EXCEPT !.stream = "finished"])
    /\ last' = Did("finish_hook", 0, FALSE)
    /\ UNCHANGED <<store, run, framecount, blocksize, cb, outdata, signal, eos>>

Next ==
    \/ Stop
    \/ Pause
    \/ Play
    \/ JumpToFrame
    \/ JumpToStart
    \/ JumpToEnd
    \/ SetDirection
    \/ SetReverse
    \/ SetLoop
    \/ CallbackBegin
    \/ CallbackEnd
    \/ FinishHook

Spec == Init /\ [][Next]_vars

\* ------------------------------------------------------------ Frame Store
\* The Frame Store on its own: the calls of BaseAudioData, the stream idle.
StoreInit ==
    /\ framecount \in 0..MaxFrames
    /\ \E framesize \in 1..MaxFrameSize : store = NewStore(framesize)
    /\ blocksize = 1
    /\ self = NewStream(FALSE, FALSE)
    /\ cb = Idle
    /\ outdata = Zeros(blocksize)
    /\ signal = "none"
    /\ eos = 0
    /\ last = Did("init", 0, FALSE)
    /\ run = RunOff

\* the cursor is kept within one frame past the end of the source
CursorBound(st) == st.cursor <= ByteLength(st) + st.framesize

StoreSeek ==
    /\ \E frame_offset \in (0 - MaxRead)..MaxRead, clamps \in BOOLEAN :
          LET r == store_seek(store, frame_offset, clamps)
          IN  /\ CursorBound(r.obj)
              /\ store' = r.obj
              /\ last' = Did("seek", frame_offset, r.err)
    /\ UNCHANGED <<framecount, blocksize, self, cb, outdata, signal, eos, run>>

StoreJump ==
    /\ \E frame_offset \in -1..(framecount + 1) :
          LET r == store_jump(store, frame_offset)
          IN  /\ store' = r.obj
              /\ last' = Did("jump", frame_offset, r.err)
    /\ UNCHANGED <<framecount, blocksize, self, cb, outdata, signal, eos, run>>

StoreRead ==
    /\ \E frames \in 1..MaxRead :
          LET r == store_read(store, frames)
          IN  /\ store' = r.obj
              /\ last' = Did("read", frames, r.err)
    /\ UNCHANGED <<framecount, blocksize, self, cb, outdata, signal, eos, run>>

StoreReadLeft ==
    /\ \E frames \in 1..MaxRead :
          LET r == store_read_left(store, frames)
          IN  /\ store' = r.obj
              /\ last' = Did("read_left", frames, r.err)
    /\ UNCHANGED <<framecount, blocksize, self, cb, outdata, signal, eos, run>>

StoreMovePosition ==
    /\ \E frame_offset \in -1..(framecount + 1),
          mode \in {FILEOBJ_SEEK_ABSOLUTE, FILEOBJ_SEEK_RELATIVE},
          clamps \in BOOLEAN :
          LET r == move_position(store, frame_offset, mode, clamps)
          IN  /\ CursorBound(r.obj)
              /\ store' = r.obj
              /\ last' = Did("move_position", frame_offset, r.err)
    /\ UNCHANGED <<framecount, blocksize, self, cb, outdata, signal, eos, run>>

StoreNext ==
    \/ StoreSeek
    \/ StoreJump
    \/ StoreRead
    \/ StoreReadLeft
    \/ StoreMovePosition

StoreSpec == StoreInit /\ [][StoreNext]_vars

\* --------------------------------------------------------- playback run
\* One uninterrupted non-looping run: play() on the fresh engine, then only
\* the audio thread (block-fill callbacks and the finish hook).
RunInit ==
    /\ framecount \in 0..MaxFrames
    /\ blocksize \in 1..MaxBlock
    /\ \E rv \in BOOLEAN : self = NewStream(FALSE, rv)
    /\ cb = Idle
    /\ outdata = Zeros(blocksize)
    /\ signal = "none"
    /\ eos = 0
    /\ last = Did("init", 0, FALSE)
    /\ run = [on |-> TRUE, frames |-> <<>>]
    /\ store = NewStore(1)

RunPlay == last.op = "init" /\ Play

RunNext ==
    \/ RunPlay
    \/ CallbackBegin
    \/ CallbackEnd
    \/ FinishHook

RunSpec == RunInit /\ [][RunNext]_vars

\* ------------------------------------------------------------------ claims
\* C1: whenever no callback is executing, 0 <= curframe <= framecount, in
\* every state reachable by transport calls and block-fill callbacks.
C1_CurframeInRange ==
    cb.pc = "idle" => (0 <= self.curframe /\ self.curframe <= framecount)

\* C2: every block-fill callback completes with all N slots written, a prefix
\* of source frames followed only by zero frames, and raises nothing other
\* than the end-of-stream signal.
C2_FullBufferNoError ==
    last.op = "callback_end" =>
        /\ signal \in {"continue", "stop"}
        /\ Len(outdata) = blocksize
        /\ \E r \in 0..blocksize :
              /\ \A k \in 1..r : outdata[k] \in {data(i) : i \in 0..(framecount - 1)}
              /\ \A k \in (r + 1)..blocksize : outdata[k] = 0

\* the source frames first, first + step, ..., n of them, by content
Run(first, step, n) == [k \in 1..n |-> data(first + step * (k - 1))]

\* the step in which the callback in flight completes
CallbackEnds == cb.pc = "running" /\ cb'.pc = "idle"

\* the callback in flight found fewer frames than the buffer holds
UnderRun == Len(cb.block) < blocksize

\* C3: forward, loop off, r = framecount - curframe with 0 < r < N: the
\* buffer holds the source's last r frames in order and then N - r zero
\* frames, and end-of-stream is signalled exactly once (never more than once
\* per run of the stream).
C3_Case ==
    /\ cb.pc = "running"
    /\ cb.direction = 1
    /\ ~self.loop
    /\ 0 <= cb.start
    /\ 0 < framecount - cb.start
    /\ framecount - cb.start < blocksize

C3_ForwardUnderRunPadsAndStops ==
    [][/\ eos' <= 1
       /\ (C3_Case /\ CallbackEnds) =>
             LET r == framecount - cb.start
             IN  /\ outdata' = Run(framecount - r, 1, r) \o Zeros(blocksize - r)
                 /\ signal' = "stop"
                 /\ eos' = 1
                 /\ self'.stream = "draining"]_vars

C3_Witness ==
    /\ last.op = "callback_end"
    /\ signal = "stop"
    /\ eos = 1
    /\ self.direction = 1
    /\ blocksize = 3
    /\ framecount >= 2
    /\ outdata = <<data(framecount - 2), data(framecount - 1), 0>>

\* C4: with loop on, a block-fill that under-runs never signals end-of-stream
\* and leaves curframe at the opposite boundary (0 forward, framecount - 1 in
\* reverse); with loop on the callback never deactivates the stream.
C4_LoopUnderRunWraps ==
    [][(CallbackEnds /\ self.loop) =>
          /\ self'.stream = "active"
          /\ UnderRun =>
                /\ signal' = "continue"
                /\ self'.curframe = IF reverse(self) THEN framecount - 1 ELSE 0]_vars

\* C5 as stated: reverse from p with N <= p < framecount delivers the source
\* frames p-N .. p-1 in ascending order and leaves curframe = p-N.
C5_Case ==
    /\ cb.pc = "running"
    /\ cb.direction = -1
    /\ blocksize <= cb.start
    /\ cb.start < framecount

C5_ReverseBlockAscending ==
    [][(C5_Case /\ CallbackEnds) =>
          /\ outdata' = Run(cb.start - blocksize, 1, blocksize)
          /\ self'.curframe = cb.start - blocksize]_vars

\* C5 amended: reverse from p with N <= p < framecount delivers the source
\* frames p, p-1, .., p-N+1 in descending order, a full block with no
\* end-of-stream, and leaves curframe = p-N.
C5_ReverseBlockDescending ==
    [][(C5_Case /\ CallbackEnds) =>
          /\ outdata' = Run(cb.start, -1, blocksize)
          /\ signal' = "continue"
          /\ self'.curframe = cb.start - blocksize]_vars

C5_Witness ==
    /\ last.op = "callback_end"
    /\ signal = "continue"
    /\ self.direction = -1
    /\ blocksize = 2
    /\ framecount = 3
    /\ outdata = <<data(2), data(1)>>
    /\ self.curframe = 0

\* C6: for every valid frame index f, jump_to_frame(f) followed by a forward
\* block-fill delivers data starting exactly at source frame f; with at least
\* N frames left the buffer is the frames f .. f+N-1 and curframe becomes f+N.
C6_Case ==
    /\ cb.pc = "running"
    /\ cb.jump # <<>>
    /\ cb.jump[1] < framecount
    /\ cb.direction = 1

C6_JumpThenForwardBlock ==
    [][(C6_Case /\ CallbackEnds) =>
          LET f == cb.jump[1]
              n == Min(blocksize, framecount - f)
          IN  /\ SubSeq(outdata', 1, n) = Run(f, 1, n)
              /\ framecount - f >= blocksize =>
                    /\ outdata' = Run(f, 1, blocksize)
                    /\ signal' = "continue"
                    /\ self'.curframe = f + blocksize]_vars

C6_Witness ==
    /\ C6_Case
    /\ cb.jump = <<1>>
    /\ blocksize = 2
    /\ framecount >= 3
    /\ cb.block = <<data(1), data(2)>>

\* C7: pause() issued while Playing and then play() resumes where pause()
\* left off: for either direction and any loop setting, play() leaves
\* curframe and the direction as they were when pause() returned.
C7_PauseThenPlayResumes ==
    [][(last.op = "pause" /\ last.arg = 1 /\ self.mode = MODE_PAUSED
            /\ last'.op = "play")
        => /\ self'.curframe = self.curframe
           /\ self'.direction = self.direction]_vars

\* C8: play() called in mode Stopped with reverse set and framecount >= 1
\* leaves curframe = framecount - 1 and mode Playing with the stream started
\* and no callback yet entered, whatever curframe was before.
C8_Case ==
    /\ last.op = "play"
    /\ last.arg = MODE_STOPPED
    /\ reverse(self)
    /\ framecount >= 1

C8_PlayFromStoppedReverse ==
    C8_Case =>
        /\ ~last.err
        /\ self.curframe = framecount - 1
        /\ self.mode = MODE_PLAYING
        /\ self.stream = "active"
        /\ cb.pc = "idle"

C8_Witness == C8_Case /\ framecount >= 3 /\ signal = "continue"

\* C9: stop() called from any mode leaves mode Stopped and, when it
\* deactivated the stream, the finish hook has left curframe = 0.
C9_StopLeavesStopped ==
    [][last'.op = "stop"
        => /\ self'.mode = MODE_STOPPED
           /\ stream_active(self) => (self'.curframe = 0 /\ ~stream_active(self'))]_vars

\* C10: from every reachable state, stop() twice in a row (the finish hook
\* running within each) ends in the same mode, curframe, direction, loop and
\* stream activity as stop() once.
C10_StopIdempotent ==
    cb.pc = "idle" => stop(stop(self)) = stop(self)

C10_Witness ==
    /\ last.op = "stop"
    /\ last.arg = 1
    /\ self.mode = MODE_STOPPED
    /\ ~stream_active(self)
    /\ stop(self) = self

\* C11: direction is +1 or -1 in every reachable state; setting it to any
\* other value is rejected with an error and leaves the object (direction,
\* curframe, loop, mode) unchanged, a valid value is stored; reverse is true
\* exactly when direction = -1.
C11_DirectionValid ==
    [][/\ self'.direction \in {1, -1}
       /\ reverse(self') <=> (self'.direction = -1)
       /\ last'.op = "set_direction" =>
             IF last'.arg \in {1, -1}
             THEN ~last'.err /\ self' = [self EXCEPT !.direction = last'.arg]
             ELSE last'.err /\ self' = self]_vars

C11_Witness ==
    /\ last.op = "set_direction"
    /\ last.arg = 2
    /\ last.err
    /\ self.direction = -1
    /\ self.mode = MODE_PLAYING

\* C12: jump_to_frame(frame) sets curframe = frame when 0 <= frame <=
\* framecount and otherwise reports a bounds error and leaves curframe (and
\* the rest of the object) unchanged, never clamping; jump_to_start() sets
\* curframe = 0; jump_to_end() sets curframe = framecount - 1 when that index
\* is valid (framecount >= 1) and reports the error otherwise.
C12_JumpBounds ==
    [][/\ last'.op = "jump_to_frame" =>
             IF 0 <= last'.arg /\ last'.arg <= framecount
             THEN ~last'.err /\ self' = [self EXCEPT !.curframe = last'.arg]
             ELSE last'.err /\ self' = self
       /\ last'.op = "jump_to_start" =>
             ~last'.err /\ self' = [self EXCEPT !.curframe = 0]
       /\ last'.op = "jump_to_end" =>
             IF framecount >= 1
             THEN ~last'.err /\ self' = [self EXCEPT !.curframe = framecount - 1]
             ELSE last'.err /\ self' = self]_vars

C12_Witness ==
    /\ last.op = "jump_to_frame"
    /\ last.arg = framecount + 1
    /\ last.err
    /\ self.curframe = 2
    /\ framecount = 3

\* C13: Frame Store read_left(k) returns a chunk covering only frames in
\* [max(0, position - k), position), and leaves position and the byte cursor
\* as they were before the call.
C13_ReadLeftClamped ==
    [][last'.op = "read_left" =>
          LET p == store.position
              k == last'.arg
          IN  /\ \A i \in 1..Len(store'.chunk) :
                    /\ store'.chunk[i] \div store.framesize >= Max(0, p - k)
                    /\ store'.chunk[i] \div store.framesize < p
              /\ store'.position = p
              /\ store'.cursor = store.cursor]_vars

\* C14: Frame Store seek(offset) / jump(frame) with a target outside
\* [0, total_frames) reports an error and moves neither cursor nor position;
\* a target inside the range is accepted and the cursor moves to it.
\* Stated for stores that hold at least one frame.
C14_Target ==
    IF last'.op = "jump" THEN last'.arg * store.framesize
    ELSE store.cursor + last'.arg * store.framesize

C14_SeekJumpBounds ==
    [][(framecount >= 1 /\ last'.op \in {"seek", "jump"}) =>
          IF 0 <= C14_Target /\ C14_Target < ByteLength(store)
          THEN ~last'.err /\ store'.cursor = C14_Target
          ELSE last'.err /\ store'.cursor = store.cursor
                         /\ store'.position = store.position]_vars

\* C15: Frame Store read(k) from position p returns exactly
\* min(k, framecount - p) frames and advances position by that number; after
\* any sequence of seek, jump, read and read_left 0 <= position <= framecount
\* and position = byte cursor / framesize.  The second part is stated for
\* read and for the seeks and jumps whose target is inside the store.
C15_InRange == 0 <= C14_Target /\ C14_Target < ByteLength(store)

C15_ReadAdvances ==
    [][/\ last'.op = "read" =>
             LET p == store.position
                 n == Min(last'.arg, framecount - p)
             IN  /\ Len(store'.chunk) = n * store.framesize
                 /\ store'.position = p + n
       /\ (\/ last'.op = "read"
           \/ last'.op \in {"seek", "jump"} /\ C15_InRange) =>
             /\ 0 <= store'.position /\ store'.position <= framecount
             /\ store'.position * store.framesize = store'.cursor]_vars

\* C16: the finish hook run with mode other than Paused (stop(), or the
\* callback ending the stream while Playing) sets curframe = 0 and mode =
\* Stopped and keeps direction and loop; run with mode = Paused it keeps
\* curframe, direction, loop and mode.  stop() and pause() set mode before
\* they halt the stream, so the hook they trigger sees Stopped, resp. Paused.
C16_FinishHookEffect ==
    [][/\ last'.op = "finish_hook" =>
             IF self.mode # MODE_PAUSED
             THEN self' = [self EXCEPT !.curframe = 0, !.mode = MODE_STOPPED,
                                       !.stream = "finished"]
             ELSE self' = [self EXCEPT !.stream = "finished"]
       /\ (last'.op = "stop" /\ stream_active(self)) =>
             self' = [self EXCEPT !.curframe = 0, !.mode = MODE_STOPPED,
                                  !.stream = "stopped"]
       /\ (last'.op = "pause" /\ stream_active(self)) =>
             self' = [self EXCEPT !.mode = MODE_PAUSED,
                                  !.stream = "stopped"]]_vars

C16_Witness ==
    /\ last.op = "pause" /\ last.arg = 1
    /\ self.mode = MODE_PAUSED /\ self.stream = "stopped"
    /\ self.curframe = 2 /\ self.direction = -1 /\ self.loop

\* C17: a jump_to_frame(f) accepted while a block-fill callback is between
\* its read of curframe and its write of the new curframe is not lost: when
\* that callback returns with the stream still active, curframe is f, so the
\* next callback starts its block at frame f.
C17_JumpDuringCallback ==
    cb.pc = "running" /\ last.op = "jump_to_frame" /\ ~last.err

C17_JumpNotLost ==
    [][(C17_JumpDuringCallback /\ CallbackEnds /\ self'.stream = "active")
          => self'.curframe = last.arg]_vars

\* C18: with loop = false, after play() and no further transport command,
\* playback ends by the callback signalling end-of-stream, the finish hook
\* then runs, and the engine is left with mode = Stopped and curframe = 0.
\* Stated on finite runs: a run that has ended has ended that way.
C18_RunEnded == self.stream = "finished"

C18_RunEndsByEndOfStream ==
    C18_RunEnded =>
        /\ signal = "stop" /\ eos = 1
        /\ last.op = "finish_hook"
        /\ self.mode = MODE_STOPPED /\ self.curframe = 0

\* C19: over one uninterrupted non-looping run started by play() from
\* Stopped, the non-padding frames delivered are every source frame exactly
\* once, in the direction of play: frames 0 .. framecount-1 forward,
\* framecount-1 .. 0 in reverse.
C19_AllFrames ==
    IF reverse(self) THEN Run(framecount - 1, -1, framecount)
    ELSE Run(0, 1, framecount)

C19_EveryFrameOnce ==
    /\ Len(run.frames) <= framecount
    /\ run.frames = SubSeq(C19_AllFrames, 1, Len(run.frames))
    /\ C18_RunEnded => run.frames = C19_AllFrames

\* C20: a block-fill call pads, wraps or signals end-of-stream only when
\* fewer than N source frames lie ahead of curframe in the direction of
\* play; with N or more available (in reverse from curframe = framecount
\* that is framecount >= N) it delivers N source frames, no padding, and
\* the stream continues.
C20_Available ==
    IF cb.direction = 1 THEN framecount - cb.start
    ELSE Min(cb.start + 1, framecount)

C20_UnderRunOnlyWhenShort ==
    [][(/\ CallbackEnds
        /\ 0 <= cb.start /\ cb.start <= framecount
        /\ C20_Available >= blocksize)
          => /\ ~UnderRun
             /\ signal' = "continue"
             /\ outdata' = cb.block
             /\ eos' = eos]_vars

====
